---- MODULE Spec2Model ----
(***************************************************************************)
(* State-machine model of continuous_stock.py: the ticker lookup, the two  *)
(* quote fetches, the bounded deque of readings and the per-round rewrite  *)
(* of the CSV snapshot done by update_csv_stock.                           *)
(*                                                                         *)
(* A CSV file is modelled by its parsed content: whether it exists, its    *)
(* header (the sequence of column names) and its data rows (each a         *)
(* sequence of cell values).  The wall clock is in whole seconds, which is *)
(* the precision of the "%Y-%m-%d %H:%M:%S" stamp.                         *)
(***************************************************************************)
EXTENDS Integers, Sequences, FiniteSets, TLC

VARIABLES
    pc,             \* position of the update_csv_stock coroutine
    companies,      \* local `companies` (the tracked list)
    num_updates,    \* local `num_updates`
    records_deque,  \* local `records_deque`
    round,          \* 1-based index of the current iteration of the outer for
    idx,            \* 1-based index of `company` in the inner for
    ticker,         \* local `ticker`
    new_price,      \* local `new_price`
    daily_high,     \* local `daily_high`
    file,           \* the CSV file at `fp`
    now,            \* wall clock, seconds
    exc,            \* the exception in flight / handled, or NoExc
    error_log,      \* number of logger.error calls made
    outstanding,    \* requests sent by fetch_from_url and not yet answered
    n_requests,     \* history: requests sent so far
    n_appends,      \* history: records_deque.append calls so far
    n_writes,       \* history: completed df.to_csv calls of the loop
    n_sleeps,       \* history: completed asyncio.sleep calls
    file0,          \* history: the file as found at startup
    last_snapshot   \* history: the file as left by the last completed write
                    \*          of the program (file0 before any)

vars == <<pc, companies, num_updates, records_deque, round, idx, ticker,
          new_price, daily_high, file, now, exc, error_log, outstanding, n_requests,
          n_appends, n_writes, n_sleeps, file0, last_snapshot>>

-----------------------------------------------------------------------------
(* Bounds of the model.                                                    *)

\* Length of the tracked list that is modelled (the source lists 10 names).
NumCompanies == 2

\* Value given to `num_updates` (both the deque's maxlen and the number of
\* rounds) where the source's 100 is out of reach of an exhaustive search.
NumUpdates == 4

\* Seconds the wall clock may advance while a fetch is awaited; the fetches
\* of one run take at most the largest of them in total.
FetchSeconds == {0, 1}

-----------------------------------------------------------------------------
(* Program constants.                                                      *)

update_interval == 60

\* The value the source gives `num_updates`.
SourceNumUpdates == 100

total_runtime == 15 * 60

stocks_dictionary ==
    ( "Cadence Design Systems"        :> "CDNS"
   @@ "Synopys"                       :> "SNPS"
   @@ "Tractor Supply Company"        :> "TSCO"
   @@ "Lululemon Ahtletica Inc."      :> "LULU"
   @@ "Arch Capital Group Ltd."       :> "ACGL"
   @@ "Costco Wholesale Corporation"  :> "COST"
   @@ "Brown & Brown Inc."            :> "BRO"
   @@ "Thermo Fisher Scientific Inc." :> "TMO"
   @@ "CDW Corporation"               :> "CDW"
   @@ "Intuit Inc."                   :> "INTU" )

\* The list literal of update_csv_stock, in source order.
TrackedCompanies ==
    << "Cadence Design Systems",
       "Synopys",
       "Tractor Supply Company",
       "Lululemon Ahtletica Inc.",
       "Arch Capital Group Ltd.",
       "Costco Wholesale Corporation",
       "Brown & Brown Inc.",
       "Thermo Fisher Scientific Inc.",
       "CDW Corporation",
       "Intuit Inc." >>

\* Columns written by init_csv_file.
InitColumns == <<"Company", "Ticker", "Time", "Stock_Price">>

\* Keys of `new_record`, in the order of the dict literal.
RecordKeys == <<"Company", "Ticker", "Time", "Price">>

-----------------------------------------------------------------------------
(* Values.                                                                 *)

NoExc == [kind |-> "none", site |-> "none"]

Raised(kind, site) == [kind |-> kind, site |-> site]

NoFile == [exists |-> FALSE, header |-> <<>>, rows |-> <<>>]

CsvFile(header, rows) == [exists |-> TRUE, header |-> header, rows |-> rows]

Min(a, b) == IF a < b THEN a ELSE b

Range(f) == { f[i] : i \in DOMAIN f }

-----------------------------------------------------------------------------
(* lookup_ticker                                                           *)

KeyError == "KeyError"

lookup_ticker_default(company) ==
    IF company \in DOMAIN stocks_dictionary
    THEN stocks_dictionary[company]
    ELSE "CDNS"

\* stocks_dictionary[company]: the value, or KeyError for a missing key.
lookup_ticker(company) ==
    IF company \in DOMAIN stocks_dictionary
    THEN stocks_dictionary[company]
    ELSE KeyError

-----------------------------------------------------------------------------
(* fetch_from_url and the two extractions                                  *)

\* The `quote` objects a response may carry: complete ones, and ones that
\* lack one of the two keys the program reads.
Quotes ==
    { [regularMarketPrice |-> 101, regularMarketDayHigh |-> 110],
      [regularMarketPrice |-> 102, regularMarketDayHigh |-> 110],
      [regularMarketDayHigh |-> 110],
      [regularMarketPrice |-> 101] }

\* result.data["optionChain"]["result"][0]["quote"][key] is defined.
HasField(quote, key) == key \in DOMAIN quote

-----------------------------------------------------------------------------
(* collections.deque(maxlen=...)                                           *)

deque_append_unbounded(d, x, maxlen) == Append(d, x)

deque_append_drop_newest(d, x, maxlen) ==
    IF Len(d) < maxlen THEN Append(d, x) ELSE d

deque_append_left(d, x, maxlen) ==
    IF maxlen = 0 THEN <<>>
    ELSE IF Len(d) >= maxlen THEN <<x>> \o SubSeq(d, 1, Len(d) - 1)
    ELSE <<x>> \o d

\* deque.append on a deque built with maxlen: a full deque discards its
\* leftmost item.
deque_append(d, x, maxlen) ==
    IF maxlen = 0 THEN <<>>
    ELSE IF Len(d) >= maxlen THEN Append(Tail(d), x)
    ELSE Append(d, x)

-----------------------------------------------------------------------------
(* pandas: DataFrame(records) and DataFrame.to_csv(index=False, mode="w")  *)

\* Row of cell values of one record, in column order.
RowOf(rec) == [k \in 1..Len(RecordKeys) |-> rec[RecordKeys[k]]]

\* pd.DataFrame(records_deque): the columns are the records' keys, one row
\* per record in deque order; no records, no columns.
DataFrame(d) ==
    [columns |-> IF Len(d) = 0 THEN <<>> ELSE RecordKeys,
     rows    |-> [i \in 1..Len(d) |-> RowOf(d[i])]]

to_csv_append(df, old) ==
    CsvFile(IF old.exists THEN old.header ELSE df.columns, old.rows \o df.rows)

\* df.to_csv(fp, index=False, mode="w"): the file holds the frame alone.
to_csv(df, old) == CsvFile(df.columns, df.rows)

\* What a to_csv that raises may leave at fp: the file untouched (the open
\* failed), or truncated and holding a prefix of the output.
FailedWrite(df, old) ==
    {old, CsvFile(<<>>, <<>>)}
    \cup { CsvFile(df.columns, SubSeq(df.rows, 1, k)) : k \in 0..(Len(df.rows) - 1) }

-----------------------------------------------------------------------------
(* Initial states                                                          *)

\* A row left by an earlier run of the program.
StaleRow == <<"Intuit Inc.", "INTU", -60, 99>>

\* The file at fp when the program starts: absent, or whatever an earlier
\* run left.
InitialFiles ==
    { NoFile,
      CsvFile(InitColumns, <<>>),
      CsvFile(RecordKeys, <<StaleRow>>) }

InitWith(cs, n, f) ==
    /\ pc = "start"
    /\ companies = cs
    /\ num_updates = n
    /\ records_deque = <<>>
    /\ round = 0
    /\ idx = 0
    /\ ticker = "unset"
    /\ new_price = 0
    /\ daily_high = 0
    /\ file = f
    /\ now = 0
    /\ exc = NoExc
    /\ error_log = 0
    /\ outstanding = 0
    /\ n_requests = 0
    /\ n_appends = 0
    /\ n_writes = 0
    /\ n_sleeps = 0
    /\ file0 = f
    /\ last_snapshot = f

Init ==
    \E f \in InitialFiles :
        InitWith(SubSeq(TrackedCompanies, 1, NumCompanies), NumUpdates, f)

-----------------------------------------------------------------------------
(* Control flow of update_csv_stock                                        *)

range_one_more == num_updates + 1

\* range(num_updates): the number of iterations of the outer for.
RoundsToRun == num_updates

maxlen_one_less == num_updates - 1

\* maxlen of records_deque.
maxlen == num_updates

always_init(f) == TRUE

\* `not os.path.exists(fp)`.
NeedsInit(f) == ~f.exists

\* init_csv_file(fp): an empty frame with the four columns, written with
\* the default mode "w".
init_csv_file(old) == CsvFile(InitColumns, <<>>)

catches_lookup_only(e) == e.kind = "KeyError"

\* `except Exception`: KeyError (a missing dict key), OSError (a file that
\* cannot be written) and the transport's errors all derive from Exception.
Catches(e) == e.kind \in {"KeyError", "OSError", "TransportError"}

\* The statement reached when the outer for asks for iteration r.
EnterRound(r) ==
    IF r <= RoundsToRun
    THEN /\ round' = r
         /\ IF Len(companies) >= 1
            THEN idx' = 1 /\ pc' = "lookup"
            ELSE idx' = idx /\ pc' = "write"
    ELSE /\ pc' = "done"
         /\ UNCHANGED <<round, idx>>

\* The wall clock when an awaited fetch resumes.
ClockAfterFetch ==
    { t \in { now + d : d \in FetchSeconds } :
        t - update_interval * n_sleeps \in FetchSeconds }

\* An exception leaves the loops for the handler of the try statement.
Raise(e) ==
    /\ pc' = "except"
    /\ exc' = e

config == <<companies, num_updates>>
locals == <<ticker, new_price, daily_high>>
history == <<n_requests, n_appends, n_writes, n_sleeps>>

-----------------------------------------------------------------------------
(* Actions                                                                 *)

Startup_reload ==
    /\ pc = "start"
    /\ records_deque' = [i \in 1..Min(Len(file.rows), maxlen) |->
                           [Company |-> file.rows[i][1],
                            Ticker  |-> file.rows[i][2],
                            Time    |-> file.rows[i][3],
                            Price   |-> file.rows[i][4]]]
    /\ file' = IF NeedsInit(file) THEN init_csv_file(file) ELSE file
    /\ last_snapshot' = file'
    /\ EnterRound(1)
    /\ UNCHANGED <<config, locals, now, exc, error_log, outstanding,
                   history, file0>>

\* Lines 116-126: the deque is created, the file is created when absent,
\* and the outer loop is entered.
Startup ==
    /\ pc = "start"
    /\ records_deque' = <<>>
    /\ file' = IF NeedsInit(file) THEN init_csv_file(file) ELSE file
    /\ last_snapshot' = file'
    /\ EnterRound(1)
    /\ UNCHANGED <<config, locals, now, exc, error_log, outstanding,
                   history, file0>>

\* Lines 121-122 when init_csv_file raises: fp is left absent or empty.
StartupFail ==
    /\ pc = "start"
    /\ NeedsInit(file)
    /\ records_deque' = <<>>
    /\ file' \in {file, CsvFile(<<>>, <<>>)}
    /\ Raise(Raised("OSError", "init_csv_file"))
    /\ UNCHANGED <<config, round, idx, locals, now, error_log, outstanding,
                   history, file0, last_snapshot>>

\* Lines 127-128: ticker = lookup_ticker(company).
LookupTicker ==
    /\ pc = "lookup"
    /\ LET t == lookup_ticker(companies[idx]) IN
         IF t = KeyError
         THEN /\ Raise(Raised("KeyError", "lookup_ticker"))
              /\ UNCHANGED ticker
         ELSE /\ ticker' = t
              /\ pc' = "call_price"
              /\ UNCHANGED exc
    /\ UNCHANGED <<config, records_deque, round, idx, new_price, daily_high,
                   file, now, error_log, outstanding, history, file0,
                   last_snapshot>>

\* Lines 65-69 and 76-80: the request is sent and the coroutine awaits.
SendRequest(at, awaiting) ==
    /\ pc = at
    /\ pc' = awaiting
    /\ outstanding' = outstanding + 1
    /\ n_requests' = n_requests + 1
    /\ UNCHANGED <<config, records_deque, round, idx, locals, file, now,
                   exc, error_log, n_appends, n_writes, n_sleeps, file0,
                   last_snapshot>>

CallGetStockPrice == SendRequest("call_price", "await_price")

CallGetDailyHigh_unawaited ==
    /\ pc = "call_high"
    /\ pc' = "append"
    /\ outstanding' = outstanding + 1
    /\ n_requests' = n_requests + 1
    /\ UNCHANGED <<config, records_deque, round, idx, locals, file, now,
                   exc, error_log, n_appends, n_writes, n_sleeps, file0,
                   last_snapshot>>

CallGetDailyHigh == SendRequest("call_high", "await_high")

GetStockPriceReturn_skip_company ==
    /\ pc = "await_price"
    /\ \E q \in Quotes, t \in ClockAfterFetch :
         /\ now' = t
         /\ IF HasField(q, "regularMarketPrice")
            THEN /\ new_price' = q.regularMarketPrice
                 /\ pc' = "call_high"
                 /\ idx' = idx
            ELSE /\ new_price' = new_price
                 /\ IF idx < Len(companies)
                    THEN idx' = idx + 1 /\ pc' = "lookup"
                    ELSE idx' = idx /\ pc' = "write"
    /\ outstanding' = outstanding - 1
    /\ UNCHANGED <<config, records_deque, round, ticker, daily_high,
                   file, exc, error_log, history, file0, last_snapshot>>

\* Lines 69-73: the response arrives and regularMarketPrice is read from
\* it; a response without the key raises KeyError.
GetStockPriceReturn ==
    /\ pc = "await_price"
    /\ \E q \in Quotes, t \in ClockAfterFetch :
         /\ now' = t
         /\ IF HasField(q, "regularMarketPrice")
            THEN /\ new_price' = q.regularMarketPrice
                 /\ pc' = "call_high"
                 /\ UNCHANGED exc
            ELSE /\ Raise(Raised("KeyError", "get_stock_price"))
                 /\ UNCHANGED new_price
    /\ outstanding' = outstanding - 1
    /\ UNCHANGED <<config, records_deque, round, idx, ticker, daily_high,
                   file, error_log, history, file0, last_snapshot>>

GetDailyHighReturn_tolerant ==
    /\ pc = "await_high"
    /\ \E q \in Quotes, t \in ClockAfterFetch :
         /\ now' = t
         /\ daily_high' = (IF HasField(q, "regularMarketDayHigh")
                           THEN q.regularMarketDayHigh
                           ELSE 0)
         /\ pc' = "append"
    /\ outstanding' = outstanding - 1
    /\ UNCHANGED <<config, records_deque, round, idx, ticker, new_price,
                   file, exc, error_log, history, file0, last_snapshot>>

\* Lines 80-83: the same for regularMarketDayHigh.
GetDailyHighReturn ==
    /\ pc = "await_high"
    /\ \E q \in Quotes, t \in ClockAfterFetch :
         /\ now' = t
         /\ IF HasField(q, "regularMarketDayHigh")
            THEN /\ daily_high' = q.regularMarketDayHigh
                 /\ pc' = "append"
                 /\ UNCHANGED exc
            ELSE /\ Raise(Raised("KeyError", "get_daily_high"))
                 /\ UNCHANGED daily_high
    /\ outstanding' = outstanding - 1
    /\ UNCHANGED <<config, records_deque, round, idx, ticker, new_price,
                   file, error_log, history, file0, last_snapshot>>

\* Lines 69 and 80: `await fetch_from_url(...)` raises.
FetchRaises(awaiting, site) ==
    /\ pc = awaiting
    /\ now' \in ClockAfterFetch
    /\ outstanding' = outstanding - 1
    /\ Raise(Raised("TransportError", site))
    /\ UNCHANGED <<config, records_deque, round, idx, locals, file,
                   error_log, history, file0, last_snapshot>>

GetStockPriceFail == FetchRaises("await_price", "get_stock_price")

GetDailyHighFail == FetchRaises("await_high", "get_daily_high")

AppendRecord_write_each ==
    /\ pc = "append"
    /\ LET new_record == [Company |-> companies[idx],
                          Ticker  |-> ticker,
                          Time    |-> now,
                          Price   |-> new_price]
       IN records_deque' = deque_append(records_deque, new_record, maxlen)
    /\ file' = to_csv(DataFrame(records_deque'), file)
    /\ last_snapshot' = file'
    /\ n_appends' = n_appends + 1
    /\ IF idx < Len(companies)
       THEN idx' = idx + 1 /\ pc' = "lookup"
       ELSE idx' = idx /\ pc' = "write"
    /\ UNCHANGED <<config, round, locals, now, exc, error_log,
                   outstanding, n_requests, n_writes, n_sleeps, file0>>

\* Lines 131-138 and the inner for: the record is stamped, built and
\* appended; the next company follows, or the write after the last one.
AppendRecord ==
    /\ pc = "append"
    /\ LET time_now == now
           new_record == [Company |-> companies[idx],
                          Ticker  |-> ticker,
                          Time    |-> time_now,
                          Price   |-> new_price]
       IN records_deque' = deque_append(records_deque, new_record, maxlen)
    /\ n_appends' = n_appends + 1
    /\ IF idx < Len(companies)
       THEN idx' = idx + 1 /\ pc' = "lookup"
       ELSE idx' = idx /\ pc' = "write"
    /\ UNCHANGED <<config, round, locals, file, now, exc, error_log,
                   outstanding, n_requests, n_writes, n_sleeps, file0,
                   last_snapshot>>

WriteSnapshot_drain ==
    /\ pc = "write"
    /\ file' = to_csv(DataFrame(records_deque), file)
    /\ records_deque' = <<>>
    /\ last_snapshot' = file'
    /\ n_writes' = n_writes + 1
    /\ pc' = "sleep"
    /\ UNCHANGED <<config, round, idx, locals, now, exc, error_log,
                   outstanding, n_requests, n_appends, n_sleeps, file0>>

WriteSnapshot_no_sleep ==
    /\ pc = "write"
    /\ file' = to_csv(DataFrame(records_deque), file)
    /\ last_snapshot' = file'
    /\ n_writes' = n_writes + 1
    /\ EnterRound(round + 1)
    /\ UNCHANGED <<config, records_deque, locals, now, exc, error_log,
                   outstanding, n_requests, n_appends, n_sleeps, file0>>

\* Lines 141-145: the deque is framed and written over the file.
WriteSnapshot ==
    /\ pc = "write"
    /\ file' = to_csv(DataFrame(records_deque), file)
    /\ last_snapshot' = file'
    /\ n_writes' = n_writes + 1
    /\ pc' = "sleep"
    /\ UNCHANGED <<config, records_deque, round, idx, locals, now, exc,
                   error_log, outstanding, n_requests, n_appends, n_sleeps,
                   file0>>

\* Line 144 when to_csv raises.
WriteSnapshotFail ==
    /\ pc = "write"
    /\ file' \in FailedWrite(DataFrame(records_deque), file)
    /\ Raise(Raised("OSError", "to_csv"))
    /\ UNCHANGED <<config, records_deque, round, idx, locals, now,
                   error_log, outstanding, history, file0, last_snapshot>>

Sleep_skip_last ==
    /\ pc = "sleep"
    /\ IF round < RoundsToRun
       THEN /\ now' = now + update_interval
            /\ n_sleeps' = n_sleeps + 1
            /\ EnterRound(round + 1)
       ELSE /\ pc' = "done"
            /\ UNCHANGED <<now, n_sleeps, round, idx>>
    /\ UNCHANGED <<config, records_deque, locals, file, exc, error_log,
                   outstanding, n_requests, n_appends, n_writes, file0,
                   last_snapshot>>

\* Line 148, then line 126: the sleep ends and the outer for goes on.
Sleep ==
    /\ pc = "sleep"
    /\ now' = now + update_interval
    /\ n_sleeps' = n_sleeps + 1
    /\ EnterRound(round + 1)
    /\ UNCHANGED <<config, records_deque, locals, file, exc, error_log,
                   outstanding, n_requests, n_appends, n_writes, file0,
                   last_snapshot>>

\* Lines 150-151: the handler logs the error; the function then returns.
Except ==
    /\ pc = "except"
    /\ IF Catches(exc)
       THEN error_log' = error_log + 1 /\ pc' = "done"
       ELSE error_log' = error_log /\ pc' = "propagated"
    /\ UNCHANGED <<config, records_deque, round, idx, locals, file, now,
                   exc, outstanding, history, file0, last_snapshot>>

Next ==
    \/ Startup
    \/ StartupFail
    \/ LookupTicker
    \/ CallGetStockPrice
    \/ GetStockPriceReturn
    \/ GetStockPriceFail
    \/ CallGetDailyHigh
    \/ GetDailyHighReturn
    \/ GetDailyHighFail
    \/ AppendRecord
    \/ WriteSnapshot
    \/ WriteSnapshotFail
    \/ Sleep
    \/ Except

Spec == Init /\ [][Next]_vars

\* The runtime resumes every awaited fetch and sleep, and the coroutine runs
\* until it returns.
LiveSpec == Spec /\ WF_vars(Next)

\* A quiet environment: every price quoted is the same and the fetches take
\* no measurable time.
Calm ==
    /\ new_price \in {0, 101}
    /\ now = update_interval * n_sleeps

InitSource ==
    \E f \in InitialFiles : InitWith(TrackedCompanies, SourceNumUpdates, f)

\* update_csv_stock with the source's ten companies and num_updates = 100,
\* in a quiet environment.
NextSource ==
    \/ Startup /\ Calm'
    \/ StartupFail /\ Calm'
    \/ LookupTicker /\ Calm'
    \/ CallGetStockPrice /\ Calm'
    \/ GetStockPriceReturn /\ Calm'
    \/ GetStockPriceFail /\ Calm'
    \/ CallGetDailyHigh /\ Calm'
    \/ GetDailyHighReturn /\ Calm'
    \/ GetDailyHighFail /\ Calm'
    \/ AppendRecord /\ Calm'
    \/ WriteSnapshot /\ Calm'
    \/ WriteSnapshotFail /\ Calm'
    \/ Sleep /\ Calm'
    \/ Except /\ Calm'

SpecSource == InitSource /\ [][NextSource]_vars

\* Company names handed to lookup_ticker: the keys of the directory and
\* names that are not keys.
NamesUnderTest == DOMAIN stocks_dictionary \cup {"Nonexistent Corp", ""}

\* Tracked lists to run the loop on: the modelled list, every single name,
\* and a miss before and after a hit.
ListsUnderTest ==
    {SubSeq(TrackedCompanies, 1, NumCompanies)}
    \cup { <<n>> : n \in NamesUnderTest }
    \cup { <<"Nonexistent Corp", "Synopys">>, <<"Synopys", "Nonexistent Corp">> }

InitResolve ==
    \E cs \in ListsUnderTest : \E f \in InitialFiles : InitWith(cs, NumUpdates, f)

\* update_csv_stock run on each list under test.
SpecResolve == InitResolve /\ [][Next]_vars

-----------------------------------------------------------------------------
(* Properties                                                              *)

\* The failure sites inside a round before the write: the resolver and the
\* two fetches.
FetchSites == {"lookup_ticker", "get_stock_price", "get_daily_high"}

Failed == exc # NoExc

\* The reading the append at pc = "append" adds.
ReadingAtAppend ==
    [Company |-> companies[idx], Ticker |-> ticker, Time |-> now,
     Price |-> new_price]

\* C1: records_deque never holds more than num_updates readings, and an
\* append to a deque holding num_updates readings drops exactly the oldest
\* one: the other num_updates - 1 keep their order and the new reading
\* comes last.
C1_BoundedFifo ==
    /\ [](Len(records_deque) <= num_updates)
    /\ [][(n_appends' = n_appends + 1 /\ Len(records_deque) = num_updates)
            => /\ Len(records_deque') = num_updates
               /\ \A i \in 1..(num_updates - 1) :
                    records_deque'[i] = records_deque[i + 1]
               /\ records_deque'[num_updates] = ReadingAtAppend]_vars

C1_Witness ==
    /\ Len(records_deque) = num_updates
    /\ n_appends > num_updates

\* C2: right after the write of a completed round (the coroutine is at the
\* sleep) the file's data rows are the readings of records_deque, one row
\* per reading, in deque order, and nothing else.
C2_SnapshotIsBuffer ==
    pc = "sleep" =>
        /\ file.exists
        /\ Len(file.rows) = Len(records_deque)
        /\ \A i \in 1..Len(records_deque) :
             file.rows[i] = << records_deque[i].Company, records_deque[i].Ticker,
                               records_deque[i].Time, records_deque[i].Price >>

C2_Witness ==
    /\ pc = "sleep"
    /\ n_writes = 2
    /\ Len(file0.rows) > 0

\* C3: every file the program writes (the one created at startup and the
\* one written after each round) has the header Company, Ticker, Time,
\* Stock_Price.
C3_FixedHeader ==
    (file.exists /\ file = last_snapshot /\ (n_writes > 0 \/ ~file0.exists))
        => file.header = <<"Company", "Ticker", "Time", "Stock_Price">>

\* C4: a failure is caught by the one handler and logged once; after it no
\* request, append, write, sleep or round happens and nothing propagates.
C4_CaughtOnce ==
    /\ [](Failed => pc \in {"except", "done"})
    /\ [](pc # "propagated")
    /\ []((pc = "except" => error_log = 0)
          /\ (pc = "done" => error_log = (IF Failed THEN 1 ELSE 0)))
    /\ [][Failed => UNCHANGED <<n_requests, n_appends, n_writes, n_sleeps,
                                round, idx, records_deque, file, outstanding,
                                now, exc>>]_vars

C4_Witness ==
    /\ pc = "done"
    /\ exc = Raised("OSError", "to_csv")
    /\ error_log = 1
    /\ round = 2

\* C5: when the resolver or a fetch fails for a company, the readings
\* appended are those of the companies before it only, the round has no
\* write, and from then on no company is processed and nothing is appended
\* or written.
C5_FetchFailureAbortsRound ==
    /\ []((Failed /\ exc.site \in FetchSites) =>
            /\ n_appends = (round - 1) * Len(companies) + (idx - 1)
            /\ n_writes = round - 1
            /\ pc \in {"except", "done"})
    /\ [][(exc'.site \in FetchSites) =>
            UNCHANGED <<records_deque, n_appends, n_writes, idx, round, file>>]_vars

C5_Witness ==
    /\ pc = "done"
    /\ exc = Raised("KeyError", "get_daily_high")
    /\ idx = 1
    /\ round = 2
    /\ Len(companies) = 2

\* C6 as claimed: once the process has stopped on an error, the file is the
\* last snapshot the program wrote (or the startup file).
C6_FileIsLastSnapshot ==
    (pc = "done" /\ Failed) => file = last_snapshot

\* C6: once the process has stopped on a resolver or fetch error, the file
\* is the last snapshot the program wrote (or the startup file) and holds
\* no reading of the aborted round.
C6_FetchFailureKeepsSnapshot ==
    (pc \in {"except", "done"} /\ Failed /\ exc.site \in FetchSites) =>
        /\ file = last_snapshot
        /\ \A i \in 1..Len(file.rows) :
             file.rows[i][3] < update_interval * (round - 1)

C6_Witness ==
    /\ pc = "done"
    /\ exc.site = "get_stock_price"
    /\ round = 2
    /\ idx = 2
    /\ Len(file.rows) = Len(companies)
    /\ Len(records_deque) = Len(companies) + 1

\* The place in production order (1 for the first reading of round 1) of
\* the reading at position i of records_deque.
ProductionIndex(i) == n_appends - Len(records_deque) + i

\* C7: records_deque holds the last min(num_updates, n) of the n readings
\* produced, in production order: the k-th reading produced is that of
\* company ((k-1) mod |C|) + 1 in round ((k-1) div |C|) + 1; a completed
\* round r has produced r * |C| readings.
C7_LastReadingsInOrder ==
    /\ Len(records_deque) = Min(num_updates, n_appends)
    /\ \A i \in 1..Len(records_deque) :
         LET k == ProductionIndex(i)
             c == ((k - 1) % Len(companies)) + 1
             r == ((k - 1) \div Len(companies)) + 1
         IN /\ records_deque[i].Company = companies[c]
            /\ records_deque[i].Ticker = stocks_dictionary[companies[c]]
            /\ records_deque[i].Time - update_interval * (r - 1) \in FetchSeconds
    /\ (pc = "sleep" => n_appends = round * Len(companies))

C7_Witness ==
    /\ pc = "sleep"
    /\ round = 3
    /\ ~Failed
    /\ Len(records_deque) = num_updates
    /\ n_appends > num_updates

\* C8: lookup_ticker gives each key of the directory its ticker and raises
\* a lookup error for any other name; the lookup changes nothing but the
\* local it is assigned to; every tracked name is a key.
C8_LookupExact ==
    /\ [][pc = "lookup" =>
            /\ IF companies[idx] \in DOMAIN stocks_dictionary
               THEN /\ ticker' = stocks_dictionary[companies[idx]]
                    /\ pc' = "call_price"
                    /\ exc' = NoExc
               ELSE /\ exc' = Raised("KeyError", "lookup_ticker")
                    /\ pc' = "except"
                    /\ ticker' = ticker
            /\ UNCHANGED <<config, records_deque, file, round, idx,
                           new_price, daily_high, n_requests, n_appends,
                           n_writes>>]_vars
    /\ [](\A i \in 1..Len(TrackedCompanies) :
            TrackedCompanies[i] \in DOMAIN stocks_dictionary)
    /\ [](("Synopys" \in Range(companies) /\ pc = "call_price" /\ companies[idx] = "Synopys")
            => ticker = "SNPS")

C8_Witness ==
    /\ companies = <<"Synopys", "Nonexistent Corp">>
    /\ exc = Raised("KeyError", "lookup_ticker")
    /\ ticker = "SNPS"
    /\ idx = 2

\* C9: a run in which nothing fails ends, and ends after exactly num_updates
\* rounds and num_updates writes; no round beyond num_updates is started.
C9_TerminatesAfterNumUpdates ==
    /\ <>(Failed \/ (pc = "done" /\ round = num_updates /\ n_writes = num_updates))
    /\ [](round <= num_updates /\ n_writes <= num_updates)
    /\ []((pc = "done" /\ ~Failed) => (round = num_updates /\ n_writes = num_updates))

C9_Witness ==
    /\ pc = "done"
    /\ ~Failed
    /\ n_writes = num_updates

\* C10: a file absent at startup holds the header row alone by the time of
\* the first request; a file present at startup is as found until the
\* write of the first round.
C10_StartupFile ==
    (n_requests > 0 /\ n_writes = 0 /\ exc.site # "to_csv") =>
        file = (IF file0.exists
                THEN file0
                ELSE CsvFile(<<"Company", "Ticker", "Time", "Stock_Price">>, <<>>))

C10_Witness ==
    /\ ~file0.exists
    /\ pc = "await_price"
    /\ n_requests = 1
    /\ file = CsvFile(InitColumns, <<>>)


\* The statements of a round, from the lookup of a company to the write.
ActivePcs ==
    {"lookup", "call_price", "await_price", "call_high", "await_high",
     "append", "write"}

\* The state of the polling loop.
Phase ==
    CASE pc = "start" -> "Idle"
      [] pc \in ActivePcs -> "RoundActive"
      [] pc = "sleep" -> "Sleeping"
      [] OTHER -> "Stopped"

\* C11: the loop goes Idle -> Round-Active -> Sleeping -> Round-Active ...
\* (or stops); the write of a round comes after the append of its last
\* company and before its sleep; round r > 1 runs only once r - 1 writes
\* and r - 1 sleeps are complete.
C11_RoundWriteSleep ==
    /\ [][(<<Phase, Phase'>> \in
            { <<"Idle", "RoundActive">>, <<"RoundActive", "RoundActive">>,
              <<"RoundActive", "Sleeping">>, <<"Sleeping", "RoundActive">>,
              <<"Idle", "Stopped">>, <<"RoundActive", "Stopped">>,
              <<"Sleeping", "Stopped">>, <<"Stopped", "Stopped">> })]_vars
    /\ [](pc \in ActivePcs => (n_writes = round - 1 /\ n_sleeps = round - 1))
    /\ [](pc = "write" => n_appends = round * Len(companies))
    /\ [](pc = "sleep" =>
            /\ n_appends = round * Len(companies)
            /\ n_writes = round
            /\ n_sleeps = round - 1)

C11_Witness ==
    /\ pc = "lookup"
    /\ round = 2
    /\ n_writes = 1
    /\ n_sleeps = 1

\* Requests sent for the current company when the coroutine is at a
\* statement of the round.
RequestsAt ==
    ( "lookup" :> 0 @@ "call_price" :> 0 @@ "await_price" :> 1
   @@ "call_high" :> 1 @@ "await_high" :> 2 @@ "append" :> 2
   @@ "write" :> 2 @@ "sleep" :> 2 )

\* C12: at most one request is outstanding, and only while a fetch is
\* awaited; a company's steps run in the order lookup, price fetch, high
\* fetch, stamp and append, and the next company starts after the append;
\* a round without failure sends two requests per company.
C12_SequentialFetches ==
    /\ [](outstanding \in {0, 1})
    /\ []((outstanding = 1) <=> (pc \in {"await_price", "await_high"}))
    /\ [][/\ pc = "lookup" => pc' \in {"call_price", "except"}
          /\ pc = "call_price" => pc' = "await_price"
          /\ pc = "await_price" => pc' \in {"call_high", "except"}
          /\ pc = "call_high" => pc' = "await_high"
          /\ pc = "await_high" => pc' \in {"append", "except"}
          /\ pc = "append" =>
                /\ n_appends' = n_appends + 1
                /\ \/ pc' = "lookup" /\ idx' = idx + 1
                   \/ pc' = "write" /\ idx = Len(companies)
          /\ pc' = "lookup" => (pc \in {"start", "append", "sleep"})]_vars
    /\ [](pc \in DOMAIN RequestsAt =>
            n_requests = 2 * ((round - 1) * Len(companies) + idx - 1)
                         + RequestsAt[pc])
    /\ [](pc = "sleep" => n_requests = 2 * round * Len(companies))

C12_Witness ==
    /\ pc = "sleep"
    /\ round = 2
    /\ n_requests = 4 * Len(companies)
    /\ outstanding = 0


\* The round in which a reading was stamped.
RoundOf(rec) == (rec.Time \div update_interval) + 1

\* C13: one reading is made per (company, round): the append for company
\* idx of round r is append number (r-1)*|C| + idx and no two readings of
\* the deque share company and round; a step changes the deque only by
\* adding the new reading at the tail, dropping the head when the deque is
\* full, so a reading that stays keeps its four fields.
C13_ReadingsImmutable ==
    /\ [][\/ records_deque' = records_deque
          \/ /\ pc = "append"
             /\ records_deque' =
                  (IF Len(records_deque) < num_updates
                   THEN records_deque
                   ELSE Tail(records_deque)) \o <<ReadingAtAppend>>]_vars
    /\ [][n_appends' # n_appends =>
            /\ pc = "append"
            /\ n_appends' = (round - 1) * Len(companies) + idx]_vars
    /\ [](\A i, j \in 1..Len(records_deque) :
            (i < j) =>
               \/ records_deque[i].Company # records_deque[j].Company
               \/ RoundOf(records_deque[i]) # RoundOf(records_deque[j]))

C13_Witness ==
    /\ pc = "append"
    /\ Len(records_deque) = num_updates
    /\ n_appends = num_updates + 1
    /\ RoundOf(records_deque[1]) < round

\* C14: the file written is a function of the deque alone (the record
\* keys as header, one row per reading), the write leaves the deque as it
\* was, and writing the same deque once more gives the same file.
C14_SerializationOfBuffer ==
    /\ [][n_writes' = n_writes + 1 =>
            /\ records_deque' = records_deque
            /\ file' = CsvFile(<<"Company", "Ticker", "Time", "Price">>,
                               [i \in 1..Len(records_deque) |->
                                  << records_deque[i].Company,
                                     records_deque[i].Ticker,
                                     records_deque[i].Time,
                                     records_deque[i].Price >>])]_vars
    /\ [](pc = "sleep" => to_csv(DataFrame(records_deque), file) = file)
    /\ [](pc \in {"write", "sleep"} =>
            to_csv(DataFrame(records_deque),
                   to_csv(DataFrame(records_deque), file))
              = to_csv(DataFrame(records_deque), file))

C14_Witness ==
    /\ pc = "sleep"
    /\ n_writes = 3
    /\ file0.exists
    /\ Len(file.rows) = num_updates


\* C15: the sleeps of a run add up to at most total_runtime (900 s).
C15_WithinTotalRuntime ==
    update_interval * n_sleeps <= total_runtime

\* The day-high values a response may carry.
DayHighs ==
    { q.regularMarketDayHigh : q \in { x \in Quotes : HasField(x, "regularMarketDayHigh") } }

\* C16: every append comes after both fetches for its company, the second
\* of which set daily_high; yet a reading has the four fields Company,
\* Ticker, Time, Price alone and no number in the file is a day high; a
\* failed day-high fetch, the price fetch done, ends the round with no
\* append for the company and no write.
C16_DayHighFetchedNotStored ==
    /\ [][n_appends' = n_appends + 1 =>
            /\ n_requests = 2 * n_appends'
            /\ daily_high \in DayHighs]_vars
    /\ [](\A i \in 1..Len(records_deque) :
            DOMAIN records_deque[i] = {"Company", "Ticker", "Time", "Price"})
    /\ [](/\ file.header \in {<<>>, InitColumns, RecordKeys}
          /\ \A i \in 1..Len(file.rows) :
               /\ Len(file.rows[i]) = 4
               /\ \A k \in {3, 4} : file.rows[i][k] \notin DayHighs)
    /\ []((Failed /\ exc.site = "get_daily_high") =>
            /\ pc \in {"except", "done"}
            /\ n_requests = 2 * n_appends + 2
            /\ n_appends = (round - 1) * Len(companies) + idx - 1
            /\ n_writes = round - 1)
    /\ [][(exc'.site = "get_daily_high") =>
            UNCHANGED <<records_deque, file, n_appends, n_writes,
                        new_price>>]_vars

C16_Witness ==
    /\ pc = "done"
    /\ exc = Raised("KeyError", "get_daily_high")
    /\ new_price = 102
    /\ daily_high = 110
    /\ round = 1
    /\ idx = 2
    /\ Len(records_deque) = 1

\* C17: the deque holds nothing before the first append of the run,
\* whatever the file held at startup, and the file after the first round
\* has one row per tracked company, in list order, stamped in this run, and
\* no row of the file found at startup.
C17_BufferStartsEmpty ==
    /\ (n_appends = 0 => records_deque = <<>>)
    /\ Len(records_deque) <= n_appends
    /\ (pc = "sleep" /\ round = 1) =>
         /\ Len(file.rows) = Len(companies)
         /\ \A i \in 1..Len(file.rows) :
              /\ file.rows[i][1] = companies[i]
              /\ file.rows[i][3] >= 0
              /\ file.rows[i] \notin Range(file0.rows)

C17_Witness ==
    /\ pc = "sleep"
    /\ round = 1
    /\ Len(file0.rows) = 1
    /\ Len(file.rows) = Len(companies)


\* Rows of the file for the company at place c of the tracked list.
RowsOfCompany(c) == { i \in 1..Len(file.rows) : file.rows[i][1] = companies[c] }

\* Rows of the file stamped in the same round as row i.
RowsOfSameRound(i) ==
    { j \in 1..Len(file.rows) :
        file.rows[j][3] \div update_interval = file.rows[i][3] \div update_interval }

\* C18: num_updates is a multiple of the number of tracked companies, and
\* the file written after round r holds min(r, num_updates / |C|) rows of
\* each company and every round it holds is whole.
C18_WholeRounds ==
    /\ num_updates % Len(companies) = 0
    /\ pc = "sleep" =>
         /\ \A c \in 1..Len(companies) :
              Cardinality(RowsOfCompany(c))
                = Min(round, num_updates \div Len(companies))
         /\ \A i \in 1..Len(file.rows) :
              Cardinality(RowsOfSameRound(i)) = Len(companies)

C18_Witness ==
    /\ pc = "sleep"
    /\ round = 12
    /\ Len(file.rows) = 100
    /\ Len(companies) = 10
    /\ Cardinality(RowsOfCompany(1)) = 10

\* C19: the rounds run and the deque's capacity are the one value
\* num_updates; a run without failure returns only from the sleep of round
\* num_updates, a full update_interval after that round's write, having
\* slept num_updates times.
C19_SleepsAfterLastRound ==
    /\ [](RoundsToRun = num_updates /\ maxlen = num_updates)
    /\ []((pc = "done" /\ ~Failed) =>
            /\ n_sleeps = num_updates
            /\ n_writes = num_updates
            /\ now >= update_interval * num_updates)
    /\ [][(pc' = "done" /\ ~Failed' /\ pc # "done") =>
            /\ pc = "sleep"
            /\ round = num_updates
            /\ n_writes = num_updates
            /\ n_sleeps' = n_sleeps + 1
            /\ now' = now + update_interval]_vars

C19_Witness ==
    /\ pc = "done"
    /\ ~Failed
    /\ n_sleeps = num_updates
    /\ now >= update_interval * num_updates
    /\ Len(records_deque) = num_updates

====
